---- MODULE Spec2Model ----
(***************************************************************************)
(* The Redis-backed session store of mcp-go-session-example: an in-memory  *)
(* map of active sessions (activeSessions, guarded by the RWMutex          *)
(* activeSessionMu) in front of a Redis client.  The three versions of the *)
(* storage package are modelled side by side; a behaviour runs one of      *)
(* them, chosen in Init (variable impl):                                   *)
(*   "state"     Load / Store / Delete over *mcp.SessionState              *)
(*   "transport" Exists / Get / Set / Delete / Range over                  *)
(*               *mcp.StreamableServerTransport                            *)
(*   "generic"   Get / Set / Delete / All / Reset over T mcp.Transport     *)
(***************************************************************************)
EXTENDS Naturals, FiniteSets, Sequences, TLC

\* ------------------------------------------------------------------ bounds

\* Ticks of the modelled clock that the configured TTL (r.ttl) lasts.
TTLTicks == 2

\* ---------------------------------------------------------------- universe

None == "none"

\* Session identifiers handed in by the protocol layer.
SessionIDs == {"x", "y"}

\* Contents of an mcp.SessionState; "zero" is the zero value of the struct.
States == {"zero", "s1"}

\* Processes sharing the Redis server, each with its own RedisSessionStore.
Stores == {"A", "B"}

\* Goroutines calling into a store; a goroutine belongs to one process.
Callers == {"a1", "a2", "b1"}

StoreOf(c) == IF c = "b1" THEN "B" ELSE "A"

Impls == {"state", "transport", "generic"}

VARIABLES
    impl,            \* which version of the storage package is running
    redis,           \* the Redis server: key -> [data, ttl] or None
    reachable,       \* whether Redis answers
    serverOk,        \* whether the MCP server accepts a Connect
    initOk,          \* whether a server session accepts an Initialize
    proc,            \* per process: the address and the Server it was
                     \*   configured with, the error that ended it or None,
                     \*   how far it has come and whether it closed its client
    activeSessions,  \* per store: session ID -> session or None
    writer,          \* activeSessionMu per store: holder of Lock, or None
    readers,         \* activeSessionMu per store: holders of RLock
    pc,              \* per caller: where it is in its operation
    call,            \* per caller: the operation and its arguments
    local,           \* per caller: local variable (data read, session built)
    result,          \* per caller: what the operation returned
    cancelled,       \* per caller: the context of its call is done
    calls,           \* per caller: the Redis commands and the Connects that
                     \*   its call has made
    stored,          \* history: the keys a SET has ever written
    deleted,         \* history, per store: IDs a Delete there removed, and that
                     \*   no SET has written since
    fresh,           \* history, per store: the session a Store there installed,
                     \*   until the next Store or Delete of that ID is called
    live,            \* history: the content the last SET of a key was given,
                     \*   until a DEL or the expiry of the key
    expired,         \* history: the keys that expired since their last SET
    iter,            \* per caller: the entries its Range (All) has called
                     \*   back for, and whether the callback is inside a
                     \*   call to the store of its own
    age              \* history: the ticks since the last SET of a key, up to
                     \*   TTLTicks (TTLTicks for a key never written)

vars == <<impl, redis, reachable, serverOk, initOk, proc, activeSessions,
          writer, readers, pc, call, local, result, cancelled, calls, stored, deleted, fresh,
          live, expired, age, iter>>

env == <<impl, redis, reachable, serverOk, initOk, proc>>
mu == <<writer, readers>>
hist == <<stored, deleted, fresh, live, expired, age>>

\* ------------------------------------------------------------- pure helpers

\* The configured key prefix (config.Prefix, default "mcp:session:").
prefix == "mcp:session:"

\* getKey that leaves the session identifier out of the key.
getKey_PrefixOnly(sessionID) == <<prefix, "">>

\* getKey: the prefix concatenated with the raw session identifier.
getKey(sessionID) == <<prefix, sessionID>>

Keys == {getKey(x) : x \in SessionIDs}

\* A marshalling that loses the fields of the struct.
MarshalState_Empty(s) == <<>>

\* encoding/json of a struct: an object, here a sequence of name/value members.
MarshalState(s) == <<[name |-> "state", value |-> s]>>

\* json.Marshal(sessionData{SessionID: sessionID}): only the identifier is kept.
MarshalSessionData(sessionID) == <<[name |-> "session_id", value |-> sessionID]>>

\* Bytes that are no JSON document.  A record's data is a sequence of
\* members throughout; this one stands for any value json.Unmarshal rejects
\* with a syntax error.
Garbage == <<[name |-> "\\xff", value |-> ""]>>

\* json.Unmarshal into a struct accepts the bytes: they are a JSON object.
IsObject(data) ==
    /\ data \in Seq([name : STRING, value : STRING])
    /\ data # Garbage

\* The value of a member of a JSON object, or the zero value when it is missing
\* (encoding/json ignores unknown members and leaves missing fields zero).
Member(data, n, zero) ==
    LET hits == {i \in 1..Len(data) : data[i].name = n}
    IN  IF hits = {} THEN zero
        ELSE data[CHOOSE i \in hits : \A j \in hits : j <= i].value

\* json.Unmarshal into an mcp.SessionState.
UnmarshalState(data) ==
    IF IsObject(data)
    THEN [ok |-> TRUE, value |-> Member(data, "state", "zero")]
    ELSE [ok |-> FALSE, value |-> "zero"]

\* json.Unmarshal into a sessionData.
UnmarshalSessionData(data) ==
    IF IsObject(data)
    THEN [ok |-> TRUE, value |-> Member(data, "session_id", "")]
    ELSE [ok |-> FALSE, value |-> ""]

\* A session object in memory: obj tells objects apart (the argument of a
\* Store/Set, or the object a Load/Get of caller c built), val is its content
\* (the SessionState, or the transport's session ID).
Session(o, v) == [obj |-> o, val |-> v]

\* No session: a missing map entry, a nil pointer.
NoSession == Session(None, None)

\* No record under a Redis key.
NoRecord == [data |-> <<>>, ttl |-> 0]

NoCall == [op |-> None, id |-> None, arg |-> NoSession]
NoResult == [kind |-> None, session |-> NoSession]

Ok(s) == [kind |-> "ok", session |-> s]
NotFound == [kind |-> "notfound", session |-> NoSession]
Err(k) == [kind |-> k, session |-> NoSession]

\* ------------------------------------------------------------------- Init

\* config.Server: a nil pointer, or the MCP server.
Servers == {"nil", "set"}

\* The Redis addresses a process may be configured with (REDIS_ADDR or
\* --redis-addr): none, or one.
Addrs == {"", "redis:6379"}

\* A process that called NewRedisSessionStore itself, with what it gave and
\* what was returned: a store when err is None, and then the process goes
\* on with it.
Built(server, err) ==
    [addr |-> None, server |-> server, err |-> err,
     phase |-> IF err = None THEN "built" ELSE "fatal", closed |-> FALSE]

\* A process of the server command that log.Fatal ended for the reason err.
Exited(addr, server, err) ==
    [addr |-> addr, server |-> server, err |-> err,
     phase |-> "fatal", closed |-> FALSE]

\* A process of the server command that is in svr.ListenAndServe.
Listening(addr) ==
    [addr |-> addr, server |-> "set", err |-> None,
     phase |-> "listening", closed |-> FALSE]

\* The process has a store: NewRedisSessionStore returned one and the
\* process has not ended.
Running(s) == proc[s].phase \in {"built", "listening"}

NoCalls == [redis |-> 0, connect |-> 0]

\* No iteration in progress.
NoIter == [seen |-> <<>>, nested |-> FALSE]

Init ==
    /\ impl \in Impls
    /\ redis = [k \in Keys |-> NoRecord]
    /\ reachable = TRUE
    /\ serverOk = TRUE
    /\ initOk = TRUE
    /\ proc = [s \in Stores |-> Listening("redis:6379")]
    /\ activeSessions = [s \in Stores |-> [x \in SessionIDs |-> NoSession]]
    /\ writer = [s \in Stores |-> None]
    /\ readers = [s \in Stores |-> {}]
    /\ pc = [c \in Callers |-> "idle"]
    /\ call = [c \in Callers |-> NoCall]
    /\ local = [c \in Callers |-> NoSession]
    /\ result = [c \in Callers |-> NoResult]
    /\ cancelled = [c \in Callers |-> FALSE]
    /\ calls = [c \in Callers |-> NoCalls]
    /\ iter = [c \in Callers |-> NoIter]
    /\ stored = {}
    /\ deleted = [s \in Stores |-> {}]
    /\ fresh = [s \in Stores |-> [x \in SessionIDs |-> NoSession]]
    /\ live = [k \in Keys |-> None]
    /\ expired = {}
    /\ age = [k \in Keys |-> TTLTicks]

\* ------------------------------------------------------ sync.RWMutex

\* activeSessionMu.RLock(): blocks while a writer holds the lock.
RLock(c) ==
    /\ writer[StoreOf(c)] = None
    /\ readers' = [readers EXCEPT ![StoreOf(c)] = @ \cup {c}]
    /\ UNCHANGED writer

\* activeSessionMu.RUnlock().
RUnlock(c) ==
    /\ readers' = [readers EXCEPT ![StoreOf(c)] = @ \ {c}]
    /\ UNCHANGED writer

\* activeSessionMu.Lock(): blocks while anyone holds the lock.
Lock(c) ==
    /\ writer[StoreOf(c)] = None
    /\ readers[StoreOf(c)] = {}
    /\ writer' = [writer EXCEPT ![StoreOf(c)] = c]
    /\ UNCHANGED readers

\* activeSessionMu.Unlock().
Unlock(c) ==
    /\ writer' = [writer EXCEPT ![StoreOf(c)] = None]
    /\ UNCHANGED readers

\* ------------------------------------------------------ the Redis client

\* The operation of caller c hands the context of its caller to the Redis
\* client: Load, Store, Delete and Health of the "state" version, Get and
\* Health of the other two; the rest use context.Background().
UsesCtx(c) ==
    \/ impl = "state"
    \/ call[c].op = "Health"
    \/ impl = "transport" /\ call[c].op = "Get"

\* The context that the Redis command of caller c is given is done.
CtxDone(c) == UsesCtx(c) /\ cancelled[c]

\* The Redis command of caller c returns an error other than redis.Nil.
Fails(c) == ~reachable \/ CtxDone(c) \/ proc[StoreOf(c)].closed

\* The Redis command of caller c is answered: Redis is reachable, the
\* context the command was given is not done and the client is not closed.
Answers(c) == ~Fails(c)

\* client.Get(ctx, key).Result(): the data, redis.Nil, or another error.
ClientGet(c, key) ==
    IF Fails(c) THEN [err |-> "error", data |-> <<>>]
    ELSE IF redis[key] = NoRecord THEN [err |-> "nil", data |-> <<>>]
    ELSE [err |-> None, data |-> redis[key].data]

\* client.Set that keeps the remaining lifetime of a record that exists.
ClientSet_KeepsTTL(key, data) ==
    [redis EXCEPT ![key] =
        [data |-> data,
         ttl |-> IF redis[key] = NoRecord THEN TTLTicks ELSE redis[key].ttl]]

\* client.Set(ctx, key, data, r.ttl): the server's state after the command.
ClientSet(key, data) ==
    [redis EXCEPT ![key] = [data |-> data, ttl |-> TTLTicks]]

\* client.Del(ctx, key): the server's state after the command.
ClientDel(key) == [redis EXCEPT ![key] = NoRecord]

\* ------------------------------------------------------ call and return

Begin(c, op, id, arg) ==
    /\ Running(StoreOf(c))
    /\ pc[c] = "idle"
    /\ call' = [call EXCEPT ![c] = [op |-> op, id |-> id, arg |-> arg]]

\* The labels at which a goroutine sends a command to Redis.
RedisLabels == {"Load_Get", "Store_Set", "Delete_Del", "Exists_Exists",
                "Get_Get", "Set_Set", "Health_Ping"}

\* The step of caller c that leaves a label of RedisLabels has sent one
\* command, the one that leaves Get_Connect has called server.Connect once;
\* a context that is done matters to the command in flight only.
Sent(c) ==
    /\ calls' = [calls EXCEPT ![c] =
                    [redis |-> @.redis + (IF pc[c] \in RedisLabels THEN 1 ELSE 0),
                     connect |-> @.connect + (IF pc[c] = "Get_Connect" THEN 1 ELSE 0)]]
    /\ cancelled' = [cancelled EXCEPT ![c] = FALSE]

Goto(c, label) ==
    /\ pc' = [pc EXCEPT ![c] = label]
    /\ Sent(c)

\* The operation returns r to its caller.
Finish(c, r) ==
    /\ pc' = [pc EXCEPT ![c] = "ret"]
    /\ result' = [result EXCEPT ![c] = r]
    /\ Sent(c)

\* The caller has taken the result and may call again.
Return(c) ==
    /\ pc[c] = "ret"
    /\ ~iter[c].nested
    /\ pc' = [pc EXCEPT ![c] = "idle"]
    /\ call' = [call EXCEPT ![c] = NoCall]
    /\ local' = [local EXCEPT ![c] = NoSession]
    /\ result' = [result EXCEPT ![c] = NoResult]
    /\ calls' = [calls EXCEPT ![c] = NoCalls]
    /\ iter' = [iter EXCEPT ![c] = NoIter]
    /\ UNCHANGED <<env, activeSessions, mu, cancelled, hist>>

\* History of a successful SET of the record of session x with content v.
Written(x, v) ==
    /\ stored' = stored \cup {getKey(x)}
    /\ deleted' = [t \in Stores |-> deleted[t] \ {x}]
    /\ live' = [live EXCEPT ![getKey(x)] = v]
    /\ expired' = expired \ {getKey(x)}
    /\ age' = [age EXCEPT ![getKey(x)] = 0]

\* ------------------------------------------ "state": Load / Store / Delete

\* Load is called with a session ID.
LoadCall(c, x) ==
    /\ impl = "state"
    /\ Begin(c, "Load", x, NoSession)
    /\ Goto(c, "Load_RLock")
    /\ UNCHANGED <<env, iter, activeSessions, mu, local, result, hist>>

LoadRLock(c) ==
    /\ pc[c] = "Load_RLock"
    /\ RLock(c)
    /\ Goto(c, "Load_lookup")
    /\ UNCHANGED <<env, iter, activeSessions, call, local, result, hist>>

LoadLookup_DefersRUnlock(c) ==
    /\ pc[c] = "Load_lookup"
    /\ LET session == activeSessions[StoreOf(c)][call[c].id]
       IN  IF session # NoSession
           THEN RUnlock(c) /\ Finish(c, Ok(session))
           ELSE Goto(c, "Load_Get") /\ UNCHANGED <<mu, result>>
    /\ UNCHANGED <<env, iter, activeSessions, call, local, hist>>

\* The lookup in activeSessions under the read lock, and RUnlock.
LoadLookup(c) ==
    /\ pc[c] = "Load_lookup"
    /\ RUnlock(c)
    /\ LET session == activeSessions[StoreOf(c)][call[c].id]
       IN  IF session # NoSession
           THEN Finish(c, Ok(session))
           ELSE Goto(c, "Load_Get") /\ UNCHANGED result
    /\ UNCHANGED <<env, iter, activeSessions, call, local, hist>>

\* LoadGet without the test for redis.Nil: a missing key is an error.
LoadGet_NilIsError(c) ==
    /\ pc[c] = "Load_Get"
    /\ LET got == ClientGet(c, getKey(call[c].id))
           sessionState == UnmarshalState(got.data)
       IN  IF got.err # None
           THEN Finish(c, Err("storage")) /\ UNCHANGED local
           ELSE IF ~sessionState.ok
           THEN Finish(c, Err("unmarshal")) /\ UNCHANGED local
           ELSE /\ local' = [local EXCEPT ![c] = Session(c, sessionState.value)]
                /\ Goto(c, "Load_Lock")
                /\ UNCHANGED result
    /\ UNCHANGED <<env, iter, activeSessions, mu, call, hist>>

\* A Load whose GET renews the time to live of the record it finds (GETEX).
LoadGet_RenewsTTL(c) ==
    /\ pc[c] = "Load_Get"
    /\ LET got == ClientGet(c, getKey(call[c].id))
           sessionState == UnmarshalState(got.data)
       IN  /\ redis' = IF got.err = None
                       THEN [redis EXCEPT ![getKey(call[c].id)].ttl = TTLTicks]
                       ELSE redis
           /\ IF got.err = "nil" THEN Finish(c, NotFound) /\ UNCHANGED local
              ELSE IF got.err # None
              THEN Finish(c, Err("storage")) /\ UNCHANGED local
              ELSE IF ~sessionState.ok
              THEN Finish(c, Err("unmarshal")) /\ UNCHANGED local
              ELSE /\ local' = [local EXCEPT ![c] = Session(c, sessionState.value)]
                   /\ Goto(c, "Load_Lock")
                   /\ UNCHANGED result
    /\ UNCHANGED <<impl, reachable, serverOk, initOk, iter, proc, activeSessions, mu,
                   call, hist>>

\* LoadGet that sends the GET a second time when the first one fails.
LoadGet_RetriesOnce(c) ==
    /\ pc[c] = "Load_Get"
    /\ LET got == ClientGet(c, getKey(call[c].id))
           sessionState == UnmarshalState(got.data)
       IN  IF got.err = "nil" THEN Finish(c, NotFound) /\ UNCHANGED local
           ELSE IF got.err # None /\ calls[c].redis = 0
           THEN Goto(c, "Load_Get") /\ UNCHANGED <<local, result>>
           ELSE IF got.err # None
           THEN Finish(c, Err("storage")) /\ UNCHANGED local
           ELSE IF ~sessionState.ok
           THEN Finish(c, Err("unmarshal")) /\ UNCHANGED local
           ELSE /\ local' = [local EXCEPT ![c] = Session(c, sessionState.value)]
                /\ Goto(c, "Load_Lock")
                /\ UNCHANGED result
    /\ UNCHANGED <<env, iter, activeSessions, mu, call, hist>>

\* client.Get and json.Unmarshal.
LoadGet(c) ==
    /\ pc[c] = "Load_Get"
    /\ LET got == ClientGet(c, getKey(call[c].id))
           sessionState == UnmarshalState(got.data)
       IN  IF got.err = "nil" THEN Finish(c, NotFound) /\ UNCHANGED local
           ELSE IF got.err # None
           THEN Finish(c, Err("storage")) /\ UNCHANGED local
           ELSE IF ~sessionState.ok
           THEN Finish(c, Err("unmarshal")) /\ UNCHANGED local
           ELSE /\ local' = [local EXCEPT ![c] = Session(c, sessionState.value)]
                /\ Goto(c, "Load_Lock")
                /\ UNCHANGED result
    /\ UNCHANGED <<env, iter, activeSessions, mu, call, hist>>

LoadLock(c) ==
    /\ pc[c] = "Load_Lock"
    /\ Lock(c)
    /\ Goto(c, "Load_insert")
    /\ UNCHANGED <<env, iter, activeSessions, call, local, result, hist>>

\* LoadInsert that refuses to replace an entry another Load put there.
LoadInsert_RejectsDuplicate(c) ==
    /\ pc[c] = "Load_insert"
    /\ Unlock(c)
    /\ IF activeSessions[StoreOf(c)][call[c].id] # NoSession
       THEN Finish(c, Err("duplicate")) /\ UNCHANGED activeSessions
       ELSE /\ activeSessions' =
                   [activeSessions EXCEPT ![StoreOf(c)][call[c].id] = local[c]]
            /\ Finish(c, Ok(local[c]))
    /\ UNCHANGED <<env, iter, call, local, hist>>

\* r.activeSessions[sessionID] = &sessionState, the deferred Unlock, return.
LoadInsert(c) ==
    /\ pc[c] = "Load_insert"
    /\ activeSessions' =
           [activeSessions EXCEPT ![StoreOf(c)][call[c].id] = local[c]]
    /\ Unlock(c)
    /\ Finish(c, Ok(local[c]))
    /\ UNCHANGED <<env, iter, call, local, hist>>

\* Store is called with a session ID and a session state.
StoreCall(c, x, s) ==
    /\ impl = "state"
    /\ Begin(c, "Store", x, Session("arg", s))
    /\ Goto(c, "Store_Set")
    /\ fresh' = [t \in Stores |-> [fresh[t] EXCEPT ![x] = NoSession]]
    /\ UNCHANGED <<env, iter, activeSessions, mu, local, result, stored, deleted,
                   live, expired, age>>

\* StoreSet that puts the session in the map before the SET is known to
\* have succeeded.
StoreSet_InsertsFirst(c) ==
    /\ pc[c] = "Store_Set"
    /\ LET key == getKey(call[c].id)
           data == MarshalState(call[c].arg.val)
       IN  IF Fails(c)
           THEN /\ Finish(c, Err("storage"))
                /\ activeSessions' =
                       [activeSessions EXCEPT ![StoreOf(c)][call[c].id] = call[c].arg]
                /\ UNCHANGED <<redis, stored, deleted, live, expired, age>>
           ELSE /\ redis' = ClientSet(key, data)
                /\ Written(call[c].id, call[c].arg.val)
                /\ Goto(c, "Store_Lock")
                /\ UNCHANGED <<result, activeSessions>>
    /\ UNCHANGED <<impl, proc, reachable, serverOk, initOk, iter, mu, call, local, fresh>>

\* StoreSet that drops the map entry when client.Set fails.
StoreSet_EvictsOnError(c) ==
    /\ pc[c] = "Store_Set"
    /\ LET key == getKey(call[c].id)
           data == MarshalState(call[c].arg.val)
       IN  IF Fails(c)
           THEN /\ Finish(c, Err("storage"))
                /\ activeSessions' = [activeSessions EXCEPT
                                          ![StoreOf(c)][call[c].id] = NoSession]
                /\ UNCHANGED <<redis, stored, deleted, live, expired, age>>
           ELSE /\ redis' = ClientSet(key, data)
                /\ Written(call[c].id, call[c].arg.val)
                /\ Goto(c, "Store_Lock")
                /\ UNCHANGED <<result, activeSessions>>
    /\ UNCHANGED <<impl, proc, reachable, serverOk, initOk, iter, mu, call, local, fresh>>

\* json.Marshal and client.Set with the configured TTL.
StoreSet(c) ==
    /\ pc[c] = "Store_Set"
    /\ LET key == getKey(call[c].id)
           data == MarshalState(call[c].arg.val)
       IN  IF Fails(c)
           THEN /\ Finish(c, Err("storage"))
                /\ UNCHANGED <<redis, stored, deleted, live, expired, age>>
           ELSE /\ redis' = ClientSet(key, data)
                /\ Written(call[c].id, call[c].arg.val)
                /\ Goto(c, "Store_Lock")
                /\ UNCHANGED result
    /\ UNCHANGED <<impl, proc, reachable, serverOk, initOk, iter, activeSessions, mu,
                   call, local,
                   fresh>>

StoreLock(c) ==
    /\ pc[c] = "Store_Lock"
    /\ Lock(c)
    /\ Goto(c, "Store_insert")
    /\ UNCHANGED <<env, iter, activeSessions, call, local, result, hist>>

\* StoreInsert that keeps an entry the map already has.
StoreInsert_KeepsOld(c) ==
    /\ pc[c] = "Store_insert"
    /\ activeSessions' =
           IF activeSessions[StoreOf(c)][call[c].id] # NoSession
           THEN activeSessions
           ELSE [activeSessions EXCEPT ![StoreOf(c)][call[c].id] = call[c].arg]
    /\ Unlock(c)
    /\ Finish(c, Ok(NoSession))
    /\ fresh' = [fresh EXCEPT ![StoreOf(c)][call[c].id] = call[c].arg]
    /\ UNCHANGED <<env, iter, call, local, stored, deleted, live, expired, age>>

\* r.activeSessions[sessionID] = sessionState, the deferred Unlock, return.
StoreInsert(c) ==
    /\ pc[c] = "Store_insert"
    /\ activeSessions' =
           [activeSessions EXCEPT ![StoreOf(c)][call[c].id] = call[c].arg]
    /\ Unlock(c)
    /\ Finish(c, Ok(NoSession))
    /\ fresh' = [fresh EXCEPT ![StoreOf(c)][call[c].id] = call[c].arg]
    /\ UNCHANGED <<env, iter, call, local, stored, deleted, live, expired, age>>

\* Delete is called with a session ID (the same code in all three versions).
DeleteCall(c, x) ==
    /\ Begin(c, "Delete", x, NoSession)
    /\ Goto(c, "Delete_Del")
    /\ fresh' = [t \in Stores |-> [fresh[t] EXCEPT ![x] = NoSession]]
    /\ UNCHANGED <<env, iter, activeSessions, mu, local, result, stored, deleted,
                   live, expired, age>>

\* DeleteDel that drops the error of client.Del and goes on to the map.
DeleteDel_IgnoresError(c) ==
    /\ pc[c] = "Delete_Del"
    /\ IF Fails(c)
       THEN UNCHANGED <<redis, live, expired>>
       ELSE /\ redis' = ClientDel(getKey(call[c].id))
            /\ live' = [live EXCEPT ![getKey(call[c].id)] = None]
            /\ expired' = expired \ {getKey(call[c].id)}
    /\ Goto(c, "Delete_Lock")
    /\ UNCHANGED <<impl, proc, reachable, serverOk, initOk, iter, activeSessions, mu,
                   call, local,
                   result, stored, deleted, fresh, age>>

\* DeleteDel that reports a key that was not there as an error.
DeleteDel_MissingIsError(c) ==
    /\ pc[c] = "Delete_Del"
    /\ IF Fails(c) \/ redis[getKey(call[c].id)] = NoRecord
       THEN Finish(c, Err("storage")) /\ UNCHANGED <<redis, live, expired>>
       ELSE /\ redis' = ClientDel(getKey(call[c].id))
            /\ live' = [live EXCEPT ![getKey(call[c].id)] = None]
            /\ expired' = expired \ {getKey(call[c].id)}
            /\ Goto(c, "Delete_Lock")
            /\ UNCHANGED result
    /\ UNCHANGED <<impl, proc, reachable, serverOk, initOk, iter, activeSessions, mu,
                   call, local,
                   stored, deleted, fresh, age>>

\* client.Del; on an error Delete returns at once.
DeleteDel(c) ==
    /\ pc[c] = "Delete_Del"
    /\ IF Fails(c)
       THEN Finish(c, Err("storage")) /\ UNCHANGED <<redis, live, expired>>
       ELSE /\ redis' = ClientDel(getKey(call[c].id))
            /\ live' = [live EXCEPT ![getKey(call[c].id)] = None]
            /\ expired' = expired \ {getKey(call[c].id)}
            /\ Goto(c, "Delete_Lock")
            /\ UNCHANGED result
    /\ UNCHANGED <<impl, proc, reachable, serverOk, initOk, iter, activeSessions, mu,
                   call, local,
                   stored, deleted, fresh, age>>

DeleteLock(c) ==
    /\ pc[c] = "Delete_Lock"
    /\ Lock(c)
    /\ Goto(c, "Delete_delete")
    /\ UNCHANGED <<env, iter, activeSessions, call, local, result, hist>>

\* DeleteDelete that leaves the entry in the map.
DeleteDelete_KeepsEntry(c) ==
    /\ pc[c] = "Delete_delete"
    /\ Unlock(c)
    /\ Finish(c, Ok(NoSession))
    /\ deleted' = [deleted EXCEPT ![StoreOf(c)] = @ \cup {call[c].id}]
    /\ UNCHANGED <<env, iter, activeSessions, call, local,
                   stored, fresh, live, expired, age>>

\* delete(r.activeSessions, sessionID), the deferred Unlock, return.
DeleteDelete(c) ==
    /\ pc[c] = "Delete_delete"
    /\ activeSessions' =
           [activeSessions EXCEPT ![StoreOf(c)][call[c].id] = NoSession]
    /\ Unlock(c)
    /\ Finish(c, Ok(NoSession))
    /\ deleted' = [deleted EXCEPT ![StoreOf(c)] = @ \cup {call[c].id}]
    /\ UNCHANGED <<env, iter, call, local, stored, fresh, live, expired, age>>

\* --------------------- "transport" and "generic": Exists / Get / Set

WriteLabels == {"Load_insert", "Store_insert", "Delete_delete", "Get_insert",
                "Set_insert", "Reset_make"}

\* Another goroutine of the same process is writing the map.
WriteInProgress(c) ==
    \E d \in Callers \ {c} : StoreOf(d) = StoreOf(c) /\ pc[d] \in WriteLabels

\* The Go runtime ends the process with "concurrent map read and map write";
\* the process comes back with an empty map and no call in progress.
Fatal(s) ==
    /\ activeSessions' = [activeSessions EXCEPT ![s] = [x \in SessionIDs |-> NoSession]]
    /\ writer' = [writer EXCEPT ![s] = None]
    /\ readers' = [readers EXCEPT ![s] = {}]
    /\ pc' = [c \in Callers |-> IF StoreOf(c) = s THEN "idle" ELSE pc[c]]
    /\ call' = [c \in Callers |-> IF StoreOf(c) = s THEN NoCall ELSE call[c]]
    /\ local' = [c \in Callers |-> IF StoreOf(c) = s THEN NoSession ELSE local[c]]
    /\ result' = [c \in Callers |-> IF StoreOf(c) = s THEN NoResult ELSE result[c]]
    /\ cancelled' = [c \in Callers |-> IF StoreOf(c) = s THEN FALSE ELSE cancelled[c]]
    /\ calls' = [c \in Callers |-> IF StoreOf(c) = s THEN NoCalls ELSE calls[c]]
    /\ iter' = [c \in Callers |-> IF StoreOf(c) = s THEN NoIter ELSE iter[c]]
    /\ fresh' = [fresh EXCEPT ![s] = [x \in SessionIDs |-> NoSession]]
    /\ UNCHANGED <<env, stored, deleted, live, expired, age>>

Bool(b) == [kind |-> IF b THEN "true" ELSE "false", session |-> NoSession]

\* Exists is called with a session ID.
ExistsCall(c, x) ==
    /\ impl = "transport"
    /\ Begin(c, "Exists", x, NoSession)
    /\ Goto(c, "Exists_lookup")
    /\ UNCHANGED <<env, iter, activeSessions, mu, local, result, hist>>

\* The lookup in activeSessions, made without taking activeSessionMu.  While
\* another goroutine writes the map the read is a data race: it finds the
\* entry or not, or the runtime ends the process.
ExistsLookup(c) ==
    /\ pc[c] = "Exists_lookup"
    /\ \/ /\ ~WriteInProgress(c)
          /\ IF activeSessions[StoreOf(c)][call[c].id] # NoSession
             THEN Finish(c, Bool(TRUE))
             ELSE Goto(c, "Exists_Exists") /\ UNCHANGED result
          /\ UNCHANGED <<env, iter, activeSessions, mu, call, local, hist>>
       \/ /\ WriteInProgress(c)
          /\ \/ Finish(c, Bool(TRUE))
             \/ Goto(c, "Exists_Exists") /\ UNCHANGED result
          /\ UNCHANGED <<env, iter, activeSessions, mu, call, local, hist>>
       \/ /\ WriteInProgress(c)
          /\ Fatal(StoreOf(c))

\* client.Exists.
ExistsExists(c) ==
    /\ pc[c] = "Exists_Exists"
    /\ IF Fails(c)
       THEN Finish(c, Err("storage"))
       ELSE Finish(c, Bool(redis[getKey(call[c].id)] # NoRecord))
    /\ UNCHANGED <<env, iter, activeSessions, mu, call, local, hist>>

\* Get is called with a session ID.
GetCall(c, x) ==
    /\ impl \in {"transport", "generic"}
    /\ Begin(c, "Get", x, NoSession)
    /\ Goto(c, "Get_RLock")
    /\ UNCHANGED <<env, iter, activeSessions, mu, local, result, hist>>

GetRLock(c) ==
    /\ pc[c] = "Get_RLock"
    /\ RLock(c)
    /\ Goto(c, "Get_lookup")
    /\ UNCHANGED <<env, iter, activeSessions, call, local, result, hist>>

\* The lookup in activeSessions under the read lock, and RUnlock.
GetLookup(c) ==
    /\ pc[c] = "Get_lookup"
    /\ RUnlock(c)
    /\ LET transport == activeSessions[StoreOf(c)][call[c].id]
       IN  IF transport # NoSession
           THEN Finish(c, Ok(transport))
           ELSE Goto(c, "Get_Get") /\ UNCHANGED result
    /\ UNCHANGED <<env, iter, activeSessions, call, local, hist>>

\* client.Get, json.Unmarshal and mcp.NewStreamableServerTransport; a missing
\* key returns a nil transport and a nil error.
GetGet(c) ==
    /\ pc[c] = "Get_Get"
    /\ LET got == ClientGet(c, getKey(call[c].id))
           sessionData == UnmarshalSessionData(got.data)
       IN  IF got.err = "nil" THEN Finish(c, Ok(NoSession)) /\ UNCHANGED local
           ELSE IF got.err # None
           THEN Finish(c, Err("storage")) /\ UNCHANGED local
           ELSE IF ~sessionData.ok
           THEN Finish(c, Err("unmarshal")) /\ UNCHANGED local
           ELSE /\ local' = [local EXCEPT ![c] = Session(c, sessionData.value)]
                /\ Goto(c, "Get_Connect")
                /\ UNCHANGED result
    /\ UNCHANGED <<env, iter, activeSessions, mu, call, hist>>

\* A Connect whose error is not looked at.
GetConnect_IgnoresError(c) ==
    /\ pc[c] = "Get_Connect"
    /\ Goto(c, "Get_Lock") /\ UNCHANGED result
    /\ UNCHANGED <<env, iter, activeSessions, mu, call, local, hist>>

\* r.server.Connect; in "transport" also serverSession.Initialize, whose
\* result is not looked at.  r.server is never nil here (NewRedisSessionStore
\* refuses a nil server), and in "generic" T is the transport type that
\* mcp.NewStreamableServerTransport returns, so the type assertion holds.
GetConnect(c) ==
    /\ pc[c] = "Get_Connect"
    /\ IF ~serverOk
       THEN Finish(c, Err("connect"))
       ELSE Goto(c, "Get_Lock") /\ UNCHANGED result
    /\ UNCHANGED <<env, iter, activeSessions, mu, call, local, hist>>

GetLock(c) ==
    /\ pc[c] = "Get_Lock"
    /\ Lock(c)
    /\ Goto(c, "Get_insert")
    /\ UNCHANGED <<env, iter, activeSessions, call, local, result, hist>>

\* r.activeSessions[sessionID] = transport, the deferred Unlock, return.
GetInsert(c) ==
    /\ pc[c] = "Get_insert"
    /\ activeSessions' =
           [activeSessions EXCEPT ![StoreOf(c)][call[c].id] = local[c]]
    /\ Unlock(c)
    /\ Finish(c, Ok(local[c]))
    /\ UNCHANGED <<env, iter, call, local, hist>>

\* Set is called with a session ID and the transport of that session.
SetCall(c, x) ==
    /\ impl \in {"transport", "generic"}
    /\ Begin(c, "Set", x, Session("arg", x))
    /\ Goto(c, "Set_Set")
    /\ fresh' = [t \in Stores |-> [fresh[t] EXCEPT ![x] = NoSession]]
    /\ UNCHANGED <<env, iter, activeSessions, mu, local, result, stored, deleted,
                   live, expired, age>>

\* json.Marshal of sessionData{SessionID: sessionID} and client.Set.
SetSet(c) ==
    /\ pc[c] = "Set_Set"
    /\ LET key == getKey(call[c].id)
           data == MarshalSessionData(call[c].id)
       IN  IF Fails(c)
           THEN /\ Finish(c, Err("storage"))
                /\ UNCHANGED <<redis, stored, deleted, live, expired, age>>
           ELSE /\ redis' = ClientSet(key, data)
                /\ Written(call[c].id, call[c].arg.val)
                /\ Goto(c, "Set_Lock")
                /\ UNCHANGED result
    /\ UNCHANGED <<impl, proc, reachable, serverOk, initOk, iter, activeSessions, mu,
                   call, local,
                   fresh>>

SetLock(c) ==
    /\ pc[c] = "Set_Lock"
    /\ Lock(c)
    /\ Goto(c, "Set_insert")
    /\ UNCHANGED <<env, iter, activeSessions, call, local, result, hist>>

\* r.activeSessions[sessionID] = session, the deferred Unlock, return.
SetInsert(c) ==
    /\ pc[c] = "Set_insert"
    /\ activeSessions' =
           [activeSessions EXCEPT ![StoreOf(c)][call[c].id] = call[c].arg]
    /\ Unlock(c)
    /\ Finish(c, Ok(NoSession))
    /\ fresh' = [fresh EXCEPT ![StoreOf(c)][call[c].id] = call[c].arg]
    /\ UNCHANGED <<env, iter, call, local, stored, deleted, live, expired, age>>

\* ------------------------------------------------- Range / All / Reset

\* Range ("transport") or the iterator of All ("generic") is run.
RangeCall(c) ==
    /\ impl \in {"transport", "generic"}
    /\ Begin(c, IF impl = "transport" THEN "Range" ELSE "All", None, NoSession)
    /\ Goto(c, "Range_RLock")
    /\ UNCHANGED <<env, iter, activeSessions, mu, local, result, hist>>

\* A Range (All) that starts its loop without the read lock.
RangeRLock_Unlocked(c) ==
    /\ pc[c] = "Range_RLock"
    /\ Goto(c, "Range_loop")
    /\ UNCHANGED <<env, iter, activeSessions, mu, call, local, result, hist>>

\* activeSessionMu.RLock() and the deferred RUnlock.
RangeRLock(c) ==
    /\ pc[c] = "Range_RLock"
    /\ RLock(c)
    /\ Goto(c, "Range_loop")
    /\ UNCHANGED <<env, iter, activeSessions, call, local, result, hist>>

\* The elements of a sequence.
Elems(q) == {q[i] : i \in 1..Len(q)}

\* The entries of the map that the range loop of caller c has yet to
\* produce: those it has not called back for.
Rest(c) ==
    {x \in SessionIDs :
        activeSessions[StoreOf(c)][x] # NoSession /\ x \notin Elems(iter[c].seen)}

\* The callback is invoked for entry x.
Visit(c, x) ==
    /\ pc[c] = "Range_loop"
    /\ x \in Rest(c)

\* The loop produces entry x, f (or yield) is called for it and returns
\* (yield returns true), and the loop goes on.
RangeNext(c, x) ==
    /\ Visit(c, x)
    /\ iter' = [iter EXCEPT ![c].seen = Append(@, x)]
    /\ Goto(c, "Range_loop")
    /\ UNCHANGED <<env, activeSessions, mu, call, local, result, hist>>

\* All: yield returns false for entry x, because the consumer of the
\* iterator left its loop; the iterator returns at once and the deferred
\* RUnlock runs.
RangeBreak(c, x) ==
    /\ impl = "generic"
    /\ Visit(c, x)
    /\ iter' = [iter EXCEPT ![c].seen = Append(@, x)]
    /\ RUnlock(c)
    /\ Finish(c, Ok(NoSession))
    /\ UNCHANGED <<env, activeSessions, call, local, hist>>

\* The range loop has produced every entry: the deferred RUnlock, return.
RangeLoop(c) ==
    /\ pc[c] = "Range_loop"
    /\ Rest(c) = {}
    /\ RUnlock(c)
    /\ Finish(c, Ok(NoSession))
    /\ UNCHANGED <<env, iter, activeSessions, call, local, hist>>

\* The callback, invoked for entry x, calls Delete, Set or Reset of the
\* store it iterates over, in the goroutine that holds the read lock:
\* what DeleteCall, SetCall and ResetCall do, from inside the loop.
RangeNested(c, x, op, y) ==
    /\ Visit(c, x)
    /\ op = "Reset" => impl = "generic"
    /\ iter' = [iter EXCEPT ![c] = [seen |-> Append(@.seen, x), nested |-> TRUE]]
    /\ call' = [call EXCEPT ![c] =
                   IF op = "Delete" THEN [op |-> op, id |-> y, arg |-> NoSession]
                   ELSE IF op = "Set" THEN [op |-> op, id |-> y, arg |-> Session("arg", y)]
                   ELSE [op |-> op, id |-> None, arg |-> NoSession]]
    /\ Goto(c, IF op = "Delete" THEN "Delete_Del"
               ELSE IF op = "Set" THEN "Set_Set" ELSE "Reset_Lock")
    /\ fresh' = IF op = "Reset" THEN fresh
                ELSE [t \in Stores |-> [fresh[t] EXCEPT ![y] = NoSession]]
    /\ UNCHANGED <<env, activeSessions, mu, local, result, stored, deleted,
                   live, expired, age>>

\* The call that the callback made has returned to it, and the callback
\* returns (yield returns true): the loop goes on.
RangeResume(c) ==
    /\ pc[c] = "ret"
    /\ iter[c].nested
    /\ iter' = [iter EXCEPT ![c].nested = FALSE]
    /\ call' = [call EXCEPT ![c] =
                   [op |-> IF impl = "transport" THEN "Range" ELSE "All",
                    id |-> None, arg |-> NoSession]]
    /\ result' = [result EXCEPT ![c] = NoResult]
    /\ Goto(c, "Range_loop")
    /\ UNCHANGED <<env, activeSessions, mu, local, hist>>

\* Reset is called.
ResetCall(c) ==
    /\ impl = "generic"
    /\ Begin(c, "Reset", None, NoSession)
    /\ Goto(c, "Reset_Lock")
    /\ UNCHANGED <<env, iter, activeSessions, mu, local, result, hist>>

ResetLock(c) ==
    /\ pc[c] = "Reset_Lock"
    /\ Lock(c)
    /\ Goto(c, "Reset_make")
    /\ UNCHANGED <<env, iter, activeSessions, call, local, result, hist>>

\* r.activeSessions = make(map[string]T), the deferred Unlock, return.
ResetMake(c) ==
    /\ pc[c] = "Reset_make"
    /\ activeSessions' =
           [activeSessions EXCEPT ![StoreOf(c)] = [x \in SessionIDs |-> NoSession]]
    /\ Unlock(c)
    /\ Finish(c, Ok(NoSession))
    /\ fresh' = [fresh EXCEPT ![StoreOf(c)] = [x \in SessionIDs |-> NoSession]]
    /\ UNCHANGED <<env, iter, call, local, stored, deleted, live, expired, age>>

\* Health is called with a context.
HealthCall(c) ==
    /\ Begin(c, "Health", None, NoSession)
    /\ Goto(c, "Health_Ping")
    /\ UNCHANGED <<env, iter, activeSessions, mu, local, result, hist>>

HealthPing_AlwaysOk(c) ==
    /\ pc[c] = "Health_Ping"
    /\ Finish(c, Ok(NoSession))
    /\ UNCHANGED <<env, iter, activeSessions, mu, call, local, hist>>

\* client.Ping, whose error is the result.
HealthPing(c) ==
    /\ pc[c] = "Health_Ping"
    /\ IF Fails(c)
       THEN Finish(c, Err("connection"))
       ELSE Finish(c, Ok(NoSession))
    /\ UNCHANGED <<env, iter, activeSessions, mu, call, local, hist>>

\* Close is called.
CloseCall(c) ==
    /\ Begin(c, "Close", None, NoSession)
    /\ Goto(c, "Close_Close")
    /\ UNCHANGED <<env, iter, activeSessions, mu, local, result, hist>>

\* client.Close, whose error is the result: the client is closed, and every
\* command sent through it from now on fails.  Neither the mutex nor the map
\* is touched.
CloseClose(c) ==
    /\ pc[c] = "Close_Close"
    /\ proc' = [proc EXCEPT ![StoreOf(c)].closed = TRUE]
    /\ Finish(c, IF proc[StoreOf(c)].closed THEN Err("closed") ELSE Ok(NoSession))
    /\ UNCHANGED <<impl, redis, reachable, serverOk, initOk, iter, activeSessions, mu,
                   call, local, hist>>

\* ------------------------------------------------------------ environment

\* Time passes: every record loses a tick of its TTL and expires at zero.
Tick ==
    /\ \E k \in Keys : redis[k] # NoRecord
    /\ redis' = [k \in Keys |->
                    IF redis[k].ttl <= 1 THEN NoRecord
                    ELSE [redis[k] EXCEPT !.ttl = @ - 1]]
    /\ live' = [k \in Keys |-> IF redis[k].ttl = 1 THEN None ELSE live[k]]
    /\ expired' = expired \cup {k \in Keys : redis[k].ttl = 1}
    /\ age' = [k \in Keys |-> IF age[k] < TTLTicks THEN age[k] + 1 ELSE age[k]]
    /\ UNCHANGED <<impl, proc, reachable, serverOk, initOk, iter, activeSessions, mu, pc,
                   cancelled, calls, call,
                   local, result, stored, deleted, fresh>>

\* The caller of an operation cancels the context of its call, or the
\* deadline of the context passes, while the Redis command is to be sent or
\* in flight.
Cancel(c) ==
    /\ pc[c] \in {"Load_Get", "Store_Set", "Delete_Del", "Get_Get", "Set_Set"}
    /\ ~cancelled[c]
    /\ cancelled' = [cancelled EXCEPT ![c] = TRUE]
    /\ UNCHANGED <<env, iter, activeSessions, mu, pc, call, local, result, calls, hist>>

\* The Redis server becomes unreachable, or reachable again.
Network ==
    /\ reachable' = ~reachable
    /\ UNCHANGED <<impl, proc, redis, serverOk, initOk, iter, activeSessions, mu, pc,
                   cancelled, calls, call, local,
                   result, hist>>

\* Another client of the Redis server overwrites the value of a key that
\* exists with bytes that are not JSON, keeping its time to live.
Corrupt(k) ==
    /\ redis[k] # NoRecord
    /\ redis[k].data # Garbage
    /\ redis' = [redis EXCEPT ![k].data = Garbage]
    /\ live' = [live EXCEPT ![k] = None]
    /\ UNCHANGED <<impl, proc, reachable, serverOk, initOk, iter, activeSessions, mu,
                   pc, cancelled, calls, call, local, result,
                   stored, deleted, fresh, expired, age>>

\* Server sessions of the MCP server start or stop accepting Initialize.
\* Only the "transport" version calls it.
OwnerInit ==
    /\ impl = "transport"
    /\ initOk' = ~initOk
    /\ UNCHANGED <<impl, proc, redis, reachable, serverOk, iter,
                   activeSessions, mu,
                   pc, cancelled, calls, call, local, result, hist>>

\* The MCP server starts or stops accepting connections.
Owner ==
    /\ impl # "state"
    /\ serverOk' = ~serverOk
    /\ UNCHANGED <<impl, proc, redis, reachable, initOk, iter, activeSessions, mu, pc,
                   cancelled, calls, call, local,
                   result, hist>>

\* NewRedisSessionStore without the test of config.Server.
NewRedisSessionStore_NoServerCheck(s, server) ==
    /\ \A c \in Callers : StoreOf(c) = s => pc[c] = "idle"
    /\ proc' = [proc EXCEPT ![s] =
                   IF ~reachable THEN Built(server, "connection")
                   ELSE Built(server, None)]
    /\ activeSessions' = [activeSessions EXCEPT ![s] = [x \in SessionIDs |-> NoSession]]
    /\ fresh' = [fresh EXCEPT ![s] = [x \in SessionIDs |-> NoSession]]
    /\ UNCHANGED <<impl, redis, reachable, serverOk, initOk, iter, mu, pc,
                   cancelled, calls, call, local,
                   result, stored, deleted, live, expired, age>>

\* NewRedisSessionStore without the PING.
NewRedisSessionStore_NoPing(s, server) ==
    /\ \A c \in Callers : StoreOf(c) = s => pc[c] = "idle"
    /\ proc' = [proc EXCEPT ![s] =
                   IF server = "nil" THEN Built(server, "config")
                   ELSE Built(server, None)]
    /\ activeSessions' = [activeSessions EXCEPT ![s] = [x \in SessionIDs |-> NoSession]]
    /\ fresh' = [fresh EXCEPT ![s] = [x \in SessionIDs |-> NoSession]]
    /\ UNCHANGED <<impl, redis, reachable, serverOk, initOk, iter, mu, pc,
                   cancelled, calls, call, local,
                   result, stored, deleted, live, expired, age>>

\* A process starts and calls NewRedisSessionStore: the PING, then the test
\* of config.Server, then a store with an empty activeSessions.  On an error
\* the process has no store (runServer ends it with log.Fatalf); what the
\* process held in memory before is gone either way.
NewRedisSessionStore(s, server) ==
    /\ \A c \in Callers : StoreOf(c) = s => pc[c] = "idle"
    /\ proc' = [proc EXCEPT ![s] =
                   IF ~reachable THEN Built(server, "connection")
                   ELSE IF server = "nil" THEN Built(server, "config")
                   ELSE Built(server, None)]
    /\ activeSessions' = [activeSessions EXCEPT ![s] = [x \in SessionIDs |-> NoSession]]
    /\ fresh' = [fresh EXCEPT ![s] = [x \in SessionIDs |-> NoSession]]
    /\ UNCHANGED <<impl, redis, reachable, serverOk, initOk, iter, mu, pc,
                   cancelled, calls, call, local,
                   result, stored, deleted, live, expired, age>>

\* runServer without the test of cfg.RedisAddr: the constructor is called
\* with the empty address.
runServer_NoAddrCheck(s, parsed, addr, bound) ==
    /\ \A c \in Callers : StoreOf(c) = s => pc[c] = "idle"
    /\ proc' = [proc EXCEPT ![s] =
                   IF ~parsed THEN Exited(None, None, "parse")
                   ELSE IF ~reachable THEN Exited(addr, "set", "connection")
                   ELSE IF ~bound THEN Exited(addr, "set", "listen")
                   ELSE Listening(addr)]
    /\ activeSessions' = [activeSessions EXCEPT ![s] = [x \in SessionIDs |-> NoSession]]
    /\ fresh' = [fresh EXCEPT ![s] = [x \in SessionIDs |-> NoSession]]
    /\ UNCHANGED <<impl, redis, reachable, serverOk, initOk, iter, mu, pc,
                   cancelled, calls, call, local,
                   result, stored, deleted, live, expired, age>>

\* A process starts the server command.  runServer parses the
\* configuration (parsed: whether env.Parse succeeds), ends with log.Fatal
\* when no Redis address is configured, calls NewRedisSessionStore with the
\* MCP server of the session server, ends with log.Fatalf when that
\* returns an error, and only then builds the handler and calls
\* svr.ListenAndServe (bound: whether the address can be listened on).
runServer(s, parsed, addr, bound) ==
    /\ \A c \in Callers : StoreOf(c) = s => pc[c] = "idle"
    /\ proc' = [proc EXCEPT ![s] =
                   IF ~parsed THEN Exited(None, None, "parse")
                   ELSE IF addr = "" THEN Exited(addr, None, "address")
                   ELSE IF ~reachable THEN Exited(addr, "set", "connection")
                   ELSE IF ~bound THEN Exited(addr, "set", "listen")
                   ELSE Listening(addr)]
    /\ activeSessions' = [activeSessions EXCEPT ![s] = [x \in SessionIDs |-> NoSession]]
    /\ fresh' = [fresh EXCEPT ![s] = [x \in SessionIDs |-> NoSession]]
    /\ UNCHANGED <<impl, redis, reachable, serverOk, initOk, iter, mu, pc,
                   cancelled, calls, call, local,
                   result, stored, deleted, live, expired, age>>

\* SIGINT or SIGTERM reaches a process that is in ListenAndServe.  The
\* signal goroutine calls svr.Shutdown, ListenAndServe returns
\* http.ErrServerClosed at once, runServer logs "Server stopped" and returns
\* and the process ends, with whatever its handlers were doing; the store is
\* left as it is, its client open or closed.
Shutdown(s) ==
    /\ proc[s].phase = "listening"
    /\ proc' = [proc EXCEPT ![s].phase = "stopped"]
    /\ activeSessions' = [activeSessions EXCEPT ![s] = [x \in SessionIDs |-> NoSession]]
    /\ writer' = [writer EXCEPT ![s] = None]
    /\ readers' = [readers EXCEPT ![s] = {}]
    /\ pc' = [c \in Callers |-> IF StoreOf(c) = s THEN "idle" ELSE pc[c]]
    /\ call' = [c \in Callers |-> IF StoreOf(c) = s THEN NoCall ELSE call[c]]
    /\ local' = [c \in Callers |-> IF StoreOf(c) = s THEN NoSession ELSE local[c]]
    /\ result' = [c \in Callers |-> IF StoreOf(c) = s THEN NoResult ELSE result[c]]
    /\ cancelled' = [c \in Callers |-> IF StoreOf(c) = s THEN FALSE ELSE cancelled[c]]
    /\ calls' = [c \in Callers |-> IF StoreOf(c) = s THEN NoCalls ELSE calls[c]]
    /\ iter' = [c \in Callers |-> IF StoreOf(c) = s THEN NoIter ELSE iter[c]]
    /\ fresh' = [fresh EXCEPT ![s] = [x \in SessionIDs |-> NoSession]]
    /\ UNCHANGED <<impl, redis, reachable, serverOk, initOk,
                   stored, deleted, live, expired, age>>

\* A process of the server command starts, or starts again.
Restart(s) ==
    \E parsed \in BOOLEAN, addr \in Addrs, bound \in BOOLEAN :
        runServer(s, parsed, addr, bound)

\* A program that uses the package on its own builds a store.
Library(s) == \E server \in Servers : NewRedisSessionStore(s, server)

\* ------------------------------------------------------------------- Next

\* The calls and steps of the operations that read, write and delete one
\* session.
SessionCall(c, ids) ==
    \/ \E x \in ids : LoadCall(c, x)
    \/ \E x \in ids, s \in States : StoreCall(c, x, s)
    \/ \E x \in ids : DeleteCall(c, x)
    \/ \E x \in ids : GetCall(c, x)
    \/ \E x \in ids : SetCall(c, x)

SessionStep(c) ==
    \/ LoadRLock(c) \/ LoadLookup(c) \/ LoadGet(c) \/ LoadLock(c) \/ LoadInsert(c)
    \/ StoreSet(c) \/ StoreLock(c) \/ StoreInsert(c)
    \/ DeleteDel(c) \/ DeleteLock(c) \/ DeleteDelete(c)
    \/ GetRLock(c) \/ GetLookup(c) \/ GetGet(c) \/ GetConnect(c)
    \/ GetLock(c) \/ GetInsert(c)
    \/ SetSet(c) \/ SetLock(c) \/ SetInsert(c)
    \/ Return(c)

Call(c, ids) ==
    \/ SessionCall(c, ids)
    \/ \E x \in ids : ExistsCall(c, x)
    \/ RangeCall(c)
    \/ ResetCall(c)
    \/ HealthCall(c)

Step(c) ==
    \/ SessionStep(c)
    \/ ExistsLookup(c) \/ ExistsExists(c)
    \/ RangeRLock(c) \/ RangeLoop(c)
    \/ \E x \in SessionIDs : RangeNext(c, x) \/ RangeBreak(c, x)
    \/ ResetLock(c) \/ ResetMake(c)
    \/ HealthPing(c)

\* Redis, the MCP server, and the processes named by S.
Environment(S) ==
    \/ Tick \/ Network \/ Owner
    \/ \E s \in S : Restart(s) \/ Shutdown(s)
    \/ \E c \in Callers : StoreOf(c) \in S /\ Cancel(c)

AllIdle == \A c \in Callers : pc[c] = "idle"

\* One goroutine in each of two processes, whose calls never overlap: a call
\* starts only when no other is in progress.
SeqCallers == {"a1", "b1"}

\* The two processes are programs that build their store themselves.
NextSeq ==
    \/ \E c \in SeqCallers : (AllIdle /\ Call(c, {"x"})) \/ Step(c)
    \/ Tick \/ Network \/ Owner \/ OwnerInit
    \/ \E k \in Keys : Corrupt(k)
    \/ \E s \in Stores : Library(s)
    \/ \E c \in Callers : Cancel(c)

SpecSeq == Init /\ [][NextSeq]_vars

\* One process of the server command from its start to its end, with one
\* goroutine whose calls include Close.
NextRun ==
    \/ AllIdle /\ (Call("a1", {"x"}) \/ CloseCall("a1"))
    \/ Step("a1") \/ CloseClose("a1")
    \/ Environment({"A"})

SpecRun == Init /\ [][NextRun]_vars

\* One goroutine of one process, working on two sessions.
NextIds ==
    \/ (AllIdle /\ Call("a1", {"x", "y"})) \/ Step("a1")
    \/ Environment({"A"})

SpecIds == Init /\ [][NextIds]_vars

\* Two goroutines of one process, whose calls on one session overlap freely.
ConcCallers == {"a1", "a2"}

Next ==
    \/ \E c \in ConcCallers : Call(c, {"x"}) \/ Step(c)
    \/ Environment({"A"})

Spec == Init /\ [][Next]_vars

\* Two goroutines of one process: one iterates over the map, with a callback
\* that may call the store, while the other works on two sessions.
IterStep(c) ==
    \/ RangeRLock(c) \/ RangeLoop(c)
    \/ \E x \in SessionIDs : RangeNext(c, x) \/ RangeBreak(c, x)
    \/ SetSet(c) \/ SetLock(c) \/ SetInsert(c)
    \/ DeleteDel(c) \/ DeleteLock(c) \/ DeleteDelete(c)
    \/ ResetLock(c) \/ ResetMake(c)
    \/ Return(c)

NextIter ==
    \/ RangeCall("a1") \/ RangeResume("a1")
    \/ \E x, y \in SessionIDs, op \in {"Delete", "Set", "Reset"} :
           RangeNested("a1", x, op, y)
    \/ \E x \in SessionIDs : SetCall("a2", x) \/ DeleteCall("a2", x)
    \/ ResetCall("a2")
    \/ \E c \in ConcCallers : IterStep(c)
    \/ Network \/ Restart("A") \/ Shutdown("A")

SpecIter == Init /\ [][NextIter]_vars

\* Two goroutines of one process that Load, Store and Delete one session.
\* The Go scheduler runs every goroutine that can run, and sync.RWMutex
\* starves neither readers nor writers: a goroutine whose step is possible
\* again and again takes it.
NextFair ==
    \/ \E c \in ConcCallers : SessionCall(c, {"x"}) \/ SessionStep(c)
    \/ Environment({"A"})

SpecFair ==
    /\ Init /\ [][NextFair]_vars
    /\ \A c \in ConcCallers : SF_vars(SessionStep(c))

\* ------------------------------------------------------------- properties

\* The operations that return a session: Load ("state"), Get (the others).
LoadOps == {"Load", "Get"}

\* What a Load or Get returns for a session that is not there: Load returns
\* fs.ErrNotExist, Get a nil transport and a nil error.
Absent(c) == IF call[c].op = "Get" THEN Ok(NoSession) ELSE NotFound

\* The step in which the operation of caller c returns.
Returns(c) == pc[c] # "ret" /\ pc'[c] = "ret"

\* A step of caller c that leaves the label it is at.
Leaves(c, label) == pc[c] = label /\ pc'[c] \notin {label, "idle"}

\* C1: calls do not overlap and Redis answers.  A Load of x on a store
\* that has just stored x returns a session; a Load of x on a store where a
\* Delete of x succeeded, with no Store of x since, is answered by Redis and
\* not by the map, and returns not-found, however often it is repeated.
C1_NoResurrection ==
    [][\A c \in Callers :
        (Returns(c) /\ call[c].op \in LoadOps) =>
            /\ fresh[StoreOf(c)][call[c].id] # NoSession =>
                   /\ result'[c].kind = "ok"
                   /\ result'[c].session # NoSession
            /\ call[c].id \in deleted[StoreOf(c)] =>
                   /\ pc[c] \in {"Load_Get", "Get_Get"}
                   /\ Answers(c) => result'[c] = Absent(c)]_vars

\* A Load has returned not-found for a session that was stored and deleted.
C1_Witness ==
    \E c \in Callers :
        /\ pc[c] = "ret" /\ call[c].op \in LoadOps
        /\ call[c].id \in deleted[StoreOf(c)]
        /\ getKey(call[c].id) \in stored
        /\ result[c] = Absent(c)

\* C2: a Load of x that follows a successful Store of x on the same store,
\* with no other Store or Delete of x called in between, returns the very
\* session that Store was given.
C2_RoundTrip ==
    [][\A c \in Callers :
        (Returns(c) /\ call[c].op \in LoadOps
                    /\ fresh[StoreOf(c)][call[c].id] # NoSession) =>
            result'[c] = Ok(fresh[StoreOf(c)][call[c].id])]_vars

\* A Load has returned the session stored just before, while the other
\* session of the same store holds something else.
C2_Witness ==
    \E c \in Callers :
        /\ pc[c] = "ret" /\ call[c].op \in LoadOps /\ call[c].id = "x"
        /\ fresh[StoreOf(c)]["x"] # NoSession
        /\ result[c] = Ok(fresh[StoreOf(c)]["x"])
        /\ activeSessions[StoreOf(c)]["y"] # NoSession
        /\ impl = "state" => activeSessions[StoreOf(c)]["y"] # result[c].session

\* C3: while no SET has ever written the key of x, a Load of x that gets an
\* answer from Redis returns not-found (no error, no session), and x stays
\* absent from Redis and from the map of every store.
C3_NeverStored ==
    [][\A c \in Callers :
        (/\ call[c].op \in LoadOps
         /\ Leaves(c, "Load_Get") \/ Leaves(c, "Get_Get")
         /\ getKey(call[c].id) \notin stored
         /\ Answers(c)) =>
            /\ pc'[c] = "ret"
            /\ result'[c] = Absent(c)
            /\ redis'[getKey(call[c].id)] = NoRecord
            /\ \A s \in Stores : activeSessions'[s][call[c].id] = NoSession]_vars

\* A Load of a session that was never stored has returned not-found.
C3_Witness ==
    \E c \in Callers :
        /\ pc[c] = "ret" /\ call[c].op \in LoadOps
        /\ getKey(call[c].id) \notin stored
        /\ result[c] = Absent(c)

\* C4: calls do not overlap.  When Redis answers, the DEL of a Delete never
\* fails, whether or not the key is there, and when Delete returns after it,
\* it returns no error and x is absent from the map and from Redis: a second
\* Delete ends as the first did.
C4_DeleteIdempotent ==
    [][\A c \in Callers :
        call[c].op = "Delete" =>
            /\ (Leaves(c, "Delete_Del") /\ Answers(c)) =>
                   /\ pc'[c] = "Delete_Lock"
                   /\ redis'[getKey(call[c].id)] = NoRecord
            /\ (Returns(c) /\ pc[c] = "Delete_delete") =>
                   /\ result'[c] = Ok(NoSession)
                   /\ activeSessions'[StoreOf(c)][call[c].id] = NoSession
                   /\ redis'[getKey(call[c].id)] = NoRecord]_vars

\* A Delete of a session that the same store deleted before, and that was
\* not stored since, has passed its DEL without an error.
C4_Witness ==
    \E c \in Callers :
        /\ pc[c] = "Delete_Lock" /\ call[c].op = "Delete"
        /\ call[c].id \in deleted[StoreOf(c)]
        /\ getKey(call[c].id) \in stored
        /\ redis[getKey(call[c].id)] = NoRecord

StoreOps == {"Store", "Set"}

\* C5: a Store and a Delete of the same session, by two goroutines of one
\* process, have both returned without an error, and the record did not
\* expire: the session is in the map and in Redis, or in neither.
C5_SerialOutcome ==
    \A c, d \in Callers :
        (/\ c # d /\ StoreOf(c) = StoreOf(d)
         /\ pc[c] = "ret" /\ pc[d] = "ret"
         /\ call[c].op \in StoreOps /\ call[d].op = "Delete"
         /\ call[c].id = call[d].id
         /\ result[c].kind = "ok" /\ result[d].kind = "ok"
         /\ getKey(call[c].id) \notin expired) =>
            (activeSessions[StoreOf(c)][call[c].id] # NoSession
                <=> redis[getKey(call[c].id)] # NoRecord)

\* C6: calls do not overlap.  After a Delete of x has returned, with or
\* without an error, x is not in the map of that store.
C6_DeleteAlwaysEvicts ==
    \A c \in Callers :
        (pc[c] = "ret" /\ call[c].op = "Delete") =>
            activeSessions[StoreOf(c)][call[c].id] = NoSession

\* C7: a Store whose SET fails returns the storage error in that step and
\* leaves the map of every store as it was; a Store whose SET succeeds has
\* not touched the map yet; and a Store is at its insertion only after a
\* successful SET of its key.
C7_StoreAtomic ==
    /\ [][\A c \in Callers :
            (/\ call[c].op \in StoreOps
             /\ Leaves(c, "Store_Set") \/ Leaves(c, "Set_Set")) =>
                /\ activeSessions' = activeSessions
                /\ IF Answers(c)
                   THEN /\ pc'[c] \in {"Store_Lock", "Set_Lock"}
                        /\ redis'[getKey(call[c].id)] # NoRecord
                   ELSE /\ pc'[c] = "ret"
                        /\ result'[c] = Err("storage")
                        /\ redis' = redis]_vars
    /\ [](\A c \in Callers :
            pc[c] \in {"Store_Lock", "Store_insert", "Set_Lock", "Set_insert"} =>
                getKey(call[c].id) \in stored)

\* A Store has failed and the entry the map had for the session is still
\* there.
C7_Witness ==
    \E c \in Callers :
        /\ pc[c] = "ret" /\ call[c].op \in StoreOps
        /\ result[c] = Err("storage")
        /\ activeSessions[StoreOf(c)][call[c].id] # NoSession
        /\ activeSessions[StoreOf(c)][call[c].id] # call[c].arg

\* C8: calls do not overlap.  While the record a Store wrote is neither
\* deleted nor expired, and Redis and the MCP server answer, a Load on a
\* store whose map has no entry (another process, or the same one after a
\* restart) reads the record, builds a session with the content that was
\* stored, puts it in its map and returns it.
C8_SurvivesRestart ==
    [][\A c \in Callers :
        call[c].op \in LoadOps =>
            /\ (/\ Leaves(c, "Load_lookup") \/ Leaves(c, "Get_lookup")
                /\ activeSessions[StoreOf(c)][call[c].id] = NoSession) =>
                   pc'[c] \in {"Load_Get", "Get_Get"}
            /\ (/\ Leaves(c, "Load_Get") \/ Leaves(c, "Get_Get")
                /\ Answers(c)
                /\ live[getKey(call[c].id)] # None) =>
                   /\ pc'[c] \in {"Load_Lock", "Get_Connect"}
                   /\ local'[c] = Session(c, live[getKey(call[c].id)])
            /\ (Leaves(c, "Get_Connect") /\ serverOk) => pc'[c] = "Get_Lock"
            /\ (Leaves(c, "Load_Lock") \/ Leaves(c, "Get_Lock")) =>
                   pc'[c] \in {"Load_insert", "Get_insert"}
            /\ (Leaves(c, "Load_insert") \/ Leaves(c, "Get_insert")) =>
                   /\ pc'[c] = "ret"
                   /\ result'[c] = Ok(local[c])
                   /\ activeSessions'[StoreOf(c)][call[c].id] = local[c]]_vars

\* A Load has returned a session it built from the record that a Store of
\* another process wrote, with the content that was stored.
C8_Witness ==
    \E c \in Callers : \E t \in Stores \ {StoreOf(c)} :
        /\ impl = "state"
        /\ pc[c] = "ret" /\ call[c].op = "Load"
        /\ result[c] = Ok(Session(c, "s1"))
        /\ activeSessions[StoreOf(c)][call[c].id] = Session(c, "s1")
        /\ activeSessions[t][call[c].id] = Session("arg", "s1")

LoadLabels == {"Load_RLock", "Load_lookup", "Load_Get", "Load_Lock",
               "Load_insert", "Get_RLock", "Get_lookup", "Get_Get",
               "Get_Connect", "Get_Lock", "Get_insert"}

\* Every goroutine of the process has returned from a Load of x with a
\* session it built itself: all of them missed the map.
AllLoaded(x) ==
    \A c \in ConcCallers :
        /\ pc[c] = "ret" /\ call[c].op \in LoadOps /\ call[c].id = x
        /\ result[c].kind = "ok" /\ result[c].session.obj = c

\* C9: goroutines of one process Load the same session at once.  Under fair
\* scheduling every Load returns; a Load that found the record in Redis
\* goes on to insert its session and returns it without an error, whatever
\* the map holds by then; and when all have returned sessions they built,
\* the map holds the session of one of them.
C9_ConcurrentLoads ==
    /\ \A c \in ConcCallers :
           (pc[c] \in LoadLabels) ~> (pc[c] \in {"ret", "idle"})
    /\ [][\A c \in ConcCallers :
            /\ (Leaves(c, "Load_Lock") \/ Leaves(c, "Get_Lock")) =>
                   pc'[c] \in {"Load_insert", "Get_insert"}
            /\ (Leaves(c, "Load_insert") \/ Leaves(c, "Get_insert")) =>
                   /\ pc'[c] = "ret"
                   /\ result'[c] = Ok(local[c])
                   /\ local[c].obj = c]_vars
    /\ [](AllLoaded("x") =>
            \E c \in ConcCallers :
                activeSessions[StoreOf(c)]["x"] = result[c].session)

\* Two Loads of the same session have both missed the map, both built a
\* session and both returned it.
C9_Witness == AllLoaded("x")

ReadLabels == {"Load_lookup", "Get_lookup", "Exists_lookup", "Range_loop"}

\* C10: a goroutine that is at a read of the map holds activeSessionMu for
\* reading, one that is at a write holds it for writing, and no goroutine is
\* at a read or a write of the map of a process while another is at a write.
C10_LockDiscipline ==
    /\ \A c \in Callers :
           /\ pc[c] \in ReadLabels => c \in readers[StoreOf(c)]
           /\ pc[c] \in WriteLabels => writer[StoreOf(c)] = c
    /\ \A c, d \in Callers :
           (c # d /\ StoreOf(c) = StoreOf(d) /\ pc[d] \in WriteLabels) =>
               pc[c] \notin (ReadLabels \cup WriteLabels)

\* The labels at which a goroutine has a call to Redis, or server.Connect, in
\* flight.
NetLabels == RedisLabels \cup {"Get_Connect"}

LockedLabels == {"Load_lookup", "Get_lookup", "Range_loop"} \cup WriteLabels

DurableLabels == {"Load_Get", "Store_Set", "Delete_Del", "Get_Get", "Set_Set"}

LookupLabels == {"Load_lookup", "Get_lookup"}

C13_HealthReflectsRedis ==
    [][\A c \in Callers :
          /\ Leaves(c, "Health_Ping") =>
                /\ pc'[c] = "ret"
                /\ result'[c] = IF Answers(c) THEN Ok(NoSession)
                                              ELSE Err("connection")
                /\ activeSessions' = activeSessions
                /\ redis' = redis
          /\ (pc[c] = "idle" /\ pc'[c] = "Health_Ping") =>
                /\ activeSessions' = activeSessions
                /\ redis' = redis]_vars

\* Health has reported the error while the map and Redis hold a session.
C13_Witness ==
    \E c \in Callers :
        /\ pc[c] = "ret"
        /\ call[c].op = "Health"
        /\ result[c] = Err("connection")
        /\ activeSessions[StoreOf(c)]["x"] # NoSession
        /\ redis[getKey("x")] # NoRecord

Empty == [x \in SessionIDs |-> NoSession]

\* The process s has no store and none of its goroutines is in a call.
NoStore(s) ==
    /\ ~Running(s)
    /\ activeSessions[s] = Empty
    /\ \A c \in Callers : StoreOf(c) = s => pc[c] = "idle"

\* C14 as stated: whenever NewRedisSessionStore was given a nil Server, it
\* returned the error that the MCP server reference is required.
C14_NilServerIsConfigError ==
    \A s \in Stores : proc[s].server = "nil" => proc[s].err = "config"

\* C14, amended: NewRedisSessionStore with a nil Server returns an error and
\* no store, whether or not Redis is reachable; the error is the one that
\* the MCP server reference is required when Redis answered the PING, and
\* the connection error when it did not.
C14_NilServerFails ==
    [][\A s \in Stores :
          /\ proc'[s].server = "nil" => NoStore(s)'
          /\ (proc'[s] # proc[s] /\ proc'[s].server = "nil") =>
                proc'[s].err = IF reachable THEN "config" ELSE "connection"]_vars

\* NewRedisSessionStore was given a nil Server while Redis answered.
C14_Witness == \E s \in Stores : proc[s] = Built("nil", "config")

\* The step is one in which process s has called NewRedisSessionStore: what
\* is known of the process changes, to a process that gave the constructor
\* a Server, or nil, and that has neither stopped nor closed its client.
IsBuild(s) ==
    /\ proc'[s] # proc[s]
    /\ proc'[s].server \in Servers
    /\ proc'[s].phase # "stopped"
    /\ ~proc'[s].closed

\* C15: NewRedisSessionStore sends the PING before it returns.  When the
\* PING fails it returns the connection error and no store; it returns a
\* store only when the PING succeeded and Server is not nil, and that
\* store's activeSessions is empty.
C15_ProbeThenStore ==
    [][\A s \in Stores :
          /\ (IsBuild(s) /\ ~reachable) =>
                proc'[s].err = "connection" /\ NoStore(s)'
          /\ (IsBuild(s) /\ Running(s)') =>
                reachable /\ activeSessions'[s] = Empty
          /\ Running(s)' => proc'[s].server = "set"
          /\ ~Running(s)' => NoStore(s)']_vars

\* A construction given a Server has failed on the PING, while Redis holds a
\* session.
C15_Witness ==
    \E s \in Stores :
        /\ proc[s] = Built("set", "connection")
        /\ redis[getKey("x")] # NoRecord

\* C16: every SET of a Store (Set) that succeeds leaves the record with the
\* full TTL, whatever lifetime it had left, so a record lives for TTLTicks
\* minus the ticks since its last SET; once TTLTicks ticks have passed since
\* the last SET the key is absent, and a Load that misses the map and asks
\* Redis returns not-found.
C16_FullTTL ==
    [][/\ \A c \in Callers :
            /\ (/\ Leaves(c, "Store_Set") \/ Leaves(c, "Set_Set")
                /\ pc'[c] # "ret") =>
                   /\ redis'[getKey(call[c].id)].ttl = TTLTicks
                   /\ age'[getKey(call[c].id)] = 0
            /\ (/\ Leaves(c, "Load_Get") \/ Leaves(c, "Get_Get")
                /\ Answers(c)
                /\ age[getKey(call[c].id)] = TTLTicks) =>
                   /\ pc'[c] = "ret"
                   /\ result'[c] = Absent(c)
       /\ \A k \in Keys :
            /\ age'[k] = TTLTicks => redis'[k] = NoRecord
            /\ redis'[k] # NoRecord => redis'[k].ttl = TTLTicks - age'[k]]_vars

\* The record of a session expired TTLTicks ticks after its last SET, and a
\* Load that asked Redis for it returned not-found.
C16_Witness ==
    \E c \in Callers :
        /\ pc[c] = "ret"
        /\ call[c].op \in LoadOps
        /\ result[c] = Absent(c)
        /\ getKey(call[c].id) \in expired
        /\ age[getKey(call[c].id)] = TTLTicks

\* The step is the start or the end of process s: it starts while none of
\* its goroutines is in a call, or a signal ends it; none of its goroutines
\* is in a call afterwards, and neither Redis nor the MCP server changes.
IsRestart(s) ==
    /\ \/ \A c \in Callers : StoreOf(c) = s => pc[c] = "idle"
       \/ proc[s].phase = "listening" /\ proc'[s].phase = "stopped"
    /\ \A c \in Callers : StoreOf(c) = s => pc'[c] = "idle"
    /\ redis' = redis /\ reachable' = reachable /\ serverOk' = serverOk

\* The step ends operation op of a goroutine of process s at its write of
\* the map.
Ends(s, op, label) ==
    \E c \in Callers :
        /\ StoreOf(c) = s
        /\ call[c].op = op
        /\ pc[c] = label /\ pc'[c] = "ret"

\* The step is the last one of a Delete of x by a goroutine of process s.
EndsDelete(s, x) ==
    \E c \in Callers :
        /\ StoreOf(c) = s /\ call[c].op = "Delete" /\ call[c].id = x
        /\ pc[c] = "Delete_delete" /\ pc'[c] = "ret"

\* The entry of x in the map of s is there before the step and gone after.
Evicted(s, x) ==
    /\ activeSessions[s][x] # NoSession
    /\ activeSessions'[s][x] = NoSession

SessionOps == {"Load", "Store", "Delete", "Get", "Set"}

\* The call that a step of caller c belongs to: the one it starts, or the
\* one it is in.
CallOf(c) == IF pc[c] = "idle" THEN call'[c] ELSE call[c]

\* C18: one goroutine working on two sessions.  Different IDs have different
\* keys; no step of a Load, Store or Delete (Get, Set) of x, failing or not,
\* changes the map entry or the record of another ID y; and whether the
\* lookup hits and whether the GET finds a record is decided by the entry
\* and the record of x alone.
C18_Independent ==
    [][/\ \A x, y \in SessionIDs : x # y => getKey(x) # getKey(y)
       /\ \A c \in Callers, y \in SessionIDs :
            (/\ pc'[c] # pc[c]
             /\ proc' = proc
             /\ CallOf(c).op \in SessionOps
             /\ CallOf(c).id # y) =>
                /\ activeSessions'[StoreOf(c)][y] = activeSessions[StoreOf(c)][y]
                /\ redis'[getKey(y)] = redis[getKey(y)]
       /\ \A c \in Callers :
            /\ (Leaves(c, "Load_lookup") \/ Leaves(c, "Get_lookup")) =>
                   (pc'[c] = "ret" <=>
                        activeSessions[StoreOf(c)][call[c].id] # NoSession)
            /\ (/\ Leaves(c, "Load_Get") \/ Leaves(c, "Get_Get")
                /\ Answers(c)) =>
                   ((pc'[c] = "ret" /\ result'[c] = Absent(c)) <=>
                        live[getKey(call[c].id)] = None)]_vars

\* A Delete of x failed on Redis and a Load of x found nothing, while the
\* map and Redis hold the session y.
C18_Witness ==
    /\ activeSessions["A"]["y"] # NoSession
    /\ redis[getKey("y")] # NoRecord
    /\ \E c \in Callers :
          /\ pc[c] = "ret"
          /\ call[c].id = "x"
          /\ \/ call[c].op = "Delete" /\ result[c] = Err("storage")
             \/ call[c].op \in LoadOps /\ result[c] = Absent(c)

\* A step in which caller c sends the Redis command of its Load, Store or
\* Delete (Get, Set) while the context of its call is done ends the
\* operation with the storage error and leaves every map as it was.
CancelAborts(c) ==
    \A l \in DurableLabels :
        (Leaves(c, l) /\ cancelled[c]) =>
            /\ pc'[c] = "ret"
            /\ result'[c] = Err("storage")
            /\ activeSessions' = activeSessions

\* C19: Load, Store and Delete hand the context of their caller to their
\* Redis command: when that context is done before or during the command,
\* the operation returns the storage error and the map is as it was before
\* the operation began (no step before the command writes the map).
C19_CancelIsStorageError ==
    [][\A c \in Callers : CancelAborts(c)]_vars

\* C20: no operation sends a command twice.  A Load (Get) that finds the
\* session in the map returns it having sent no command and made no Connect;
\* one that misses has sent exactly one GET, and made at most one Connect,
\* when it returns; a Store (Set) and a Delete have sent exactly one command
\* when they return; and a command that fails for another reason than a
\* missing key ends the operation with the storage error in that step.
C20_NoRetry ==
    [][\A c \in Callers :
          /\ (Returns(c) /\ call[c].op \in LoadOps /\ pc[c] \in LookupLabels) =>
                /\ calls'[c] = NoCalls
                /\ result'[c] = Ok(activeSessions[StoreOf(c)][call[c].id])
          /\ (Returns(c) /\ call[c].op \in LoadOps /\ pc[c] \notin LookupLabels) =>
                /\ calls'[c].redis = 1
                /\ calls'[c].connect <= 1
          /\ (Returns(c) /\ call[c].op \in StoreOps \cup {"Delete"}) =>
                calls'[c] = [redis |-> 1, connect |-> 0]
          /\ \A l \in DurableLabels :
                (Leaves(c, l) /\ Fails(c)) =>
                    /\ pc'[c] = "ret"
                    /\ result'[c] = Err("storage")
                    /\ calls'[c].redis = 1]_vars

\* A Load has returned the storage error after its one GET, and the map of
\* another process holds the session.
C20_Witness ==
    \E c \in Callers :
        /\ pc[c] = "ret"
        /\ call[c].op \in LoadOps
        /\ result[c] = Err("storage")
        /\ calls[c] = [redis |-> 1, connect |-> 0]
        /\ \E s \in Stores : activeSessions[s][call[c].id] # NoSession

\* C21: the server command is in ListenAndServe only with a store that
\* NewRedisSessionStore returned without an error for a configured Redis
\* address.  A process with no Redis address configured ends fatally, and so
\* does one whose construction returned an error; a start while Redis is
\* unreachable never reaches ListenAndServe, and a process that reaches it
\* starts with an empty map.
C21_ListenAfterStore ==
    [][\A s \in Stores :
          /\ proc'[s].phase = "listening" =>
                /\ proc'[s].addr # ""
                /\ proc'[s].server = "set"
                /\ proc'[s].err = None
          /\ proc'[s].addr = "" =>
                proc'[s].phase = "fatal" /\ proc'[s].err = "address"
          /\ proc'[s].err # None =>
                proc'[s].phase = "fatal" /\ NoStore(s)'
          /\ (IsBuild(s) /\ ~reachable) =>
                proc'[s].phase = "fatal" /\ proc'[s].err = "connection"
          /\ (IsBuild(s) /\ proc'[s].phase = "listening") =>
                reachable /\ activeSessions'[s] = Empty]_vars

\* A process was started with no Redis address and has ended fatally, while
\* Redis holds a session that an earlier run of the server stored.
C21_Witness ==
    /\ proc["A"] = Exited("", None, "address")
    /\ redis[getKey("x")] # NoRecord

\* C22: in every run of the server command that built its store and ends on
\* a signal, the client of the store has been closed by the time the
\* process ends: Close was called.
C22_ClosedOnShutdown ==
    [][\A s \in Stores :
          (proc[s].phase = "listening" /\ proc'[s].phase = "stopped") =>
              proc'[s].closed]_vars

InsertLabels == {"Load_insert", "Get_insert"}

\* The record that caller c asks Redis for.
Record(c) == redis[getKey(call[c].id)]

\* C23: calls do not overlap.  A Load (Get) that misses the map writes the
\* map in its last step only, the one that returns the session, and it is
\* at that step only with a session it built from the record; when the GET
\* fails, when the record is not JSON, or when Connect fails, it returns
\* the error in that step, every map is as it was, and the session is
\* still absent from the map.
C23_InsertLast ==
    /\ [][\A c \in Callers :
            /\ (/\ pc'[c] # pc[c] /\ proc' = proc
                /\ CallOf(c).op \in LoadOps
                /\ pc[c] \notin InsertLabels) =>
                   activeSessions' = activeSessions
            /\ (pc'[c] # pc[c] /\ proc' = proc /\ pc[c] \in InsertLabels) =>
                   /\ pc'[c] = "ret"
                   /\ result'[c] = Ok(local[c])
                   /\ activeSessions'[StoreOf(c)][call[c].id] = local[c]
            /\ (/\ Leaves(c, "Load_Get") \/ Leaves(c, "Get_Get")
                /\ \/ Fails(c)
                   \/ Record(c) # NoRecord /\ ~IsObject(Record(c).data)) =>
                   /\ pc'[c] = "ret"
                   /\ result'[c] = Err(IF Fails(c) THEN "storage" ELSE "unmarshal")
                   /\ activeSessions'[StoreOf(c)][call[c].id] = NoSession
            /\ (Leaves(c, "Get_Connect") /\ ~serverOk) =>
                   /\ pc'[c] = "ret"
                   /\ result'[c] = Err("connect")
                   /\ activeSessions'[StoreOf(c)][call[c].id] = NoSession]_vars
    /\ [](\A c \in Callers :
            pc[c] \in InsertLabels \cup {"Load_Lock", "Get_Lock"} =>
                /\ local[c].obj = c
                /\ getKey(call[c].id) \in stored)

\* A Load has returned the error of the unmarshalling of a record that is
\* not JSON, and the session is absent from the map of its store.
C23_Witness ==
    \E c \in Callers :
        /\ pc[c] = "ret" /\ call[c].op \in LoadOps
        /\ result[c] = Err("unmarshal")
        /\ Record(c) = [data |-> Garbage, ttl |-> 1]
        /\ activeSessions[StoreOf(c)][call[c].id] = NoSession

\* C24: a Get that has built the transport returns the reattachment error,
\* and neither returns nor inserts a session, whenever the MCP server fails
\* it: when server.Connect fails, and when the Initialize of the server
\* session that Connect returned fails.
C24_OwnerFailureIsError ==
    [][\A c \in Callers :
          (/\ Leaves(c, "Get_Connect")
           /\ ~serverOk \/ (impl = "transport" /\ ~initOk)) =>
              /\ pc'[c] = "ret"
              /\ result'[c] = Err("connect")
              /\ activeSessions' = activeSessions]_vars

\* The step sends the SET of a Store (Set) of the session with key k.
IsSet(k) ==
    \E c \in Callers :
        /\ call[c].op \in StoreOps /\ getKey(call[c].id) = k
        /\ Leaves(c, "Store_Set") \/ Leaves(c, "Set_Set")

\* The step sends the DEL of a Delete of the session with key k.
IsDel(k) ==
    \E c \in Callers :
        /\ call[c].op = "Delete" /\ getKey(call[c].id) = k
        /\ Leaves(c, "Delete_Del")

\* C25: no step of a Load (Get), from its call to its return, changes Redis:
\* it creates, modifies and deletes no record and renews no time to live.
\* A record appears, changes its data or gains lifetime only in the SET of
\* a Store (Set) of its session, and disappears only in the DEL of a
\* Delete of its session or when its last tick of lifetime passes.
C25_LoadReadsOnly ==
    [][/\ \A c \in Callers :
            (pc'[c] # pc[c] /\ proc' = proc /\ CallOf(c).op \in LoadOps) =>
                redis' = redis
       /\ \A k \in Keys :
            /\ (/\ redis'[k] # NoRecord
                /\ \/ redis'[k].data # redis[k].data
                   \/ redis'[k].ttl > redis[k].ttl) => IsSet(k)
            /\ (redis[k] # NoRecord /\ redis'[k] = NoRecord) =>
                   \/ IsDel(k)
                   \/ pc' = pc /\ redis[k].ttl = 1]_vars

\* A Load has built a session from a record in the middle of its lifetime,
\* and the record still has the lifetime it had.
C25_Witness ==
    \E c \in Callers :
        /\ pc[c] = "ret" /\ call[c].op \in LoadOps
        /\ result[c] = Ok(Session(c, live[getKey(call[c].id)]))
        /\ Record(c).ttl = TTLTicks - 1
        /\ age[getKey(call[c].id)] = 1

\* C26: one process, one goroutine, calls one after the other.  Between
\* calls, every session in the map has a record in Redis, unless the record
\* expired since its last SET; no failure of a command breaks this.
C26_HotHasRecord ==
    \A x \in SessionIDs :
        (/\ \A c \in Callers : pc[c] \in {"idle", "ret"}
         /\ activeSessions["A"][x] # NoSession
         /\ getKey(x) \notin expired) =>
            redis[getKey(x)] # NoRecord

\* Between calls the map holds a session x that a Load built from its
\* record, which is there, while the session y was stored and deleted and
\* is in neither.
C26_Witness ==
    /\ AllIdle
    /\ activeSessions["A"]["x"].obj = "a1"
    /\ redis[getKey("x")] # NoRecord
    /\ activeSessions["A"]["y"] = NoSession
    /\ "y" \in deleted["A"]
    /\ redis[getKey("y")] = NoRecord
    /\ expired = {}

\* C27: two goroutines of one process have stored different states of the
\* same session at once, both Stores have returned without an error, and
\* the record did not expire: the map holds the state that the record holds.
C27_StoresAgree ==
    \A c, d \in Callers :
        (/\ c # d /\ StoreOf(c) = StoreOf(d)
         /\ pc[c] = "ret" /\ pc[d] = "ret"
         /\ call[c].op \in StoreOps /\ call[d].op \in StoreOps
         /\ call[c].id = call[d].id
         /\ call[c].arg # call[d].arg
         /\ result[c].kind = "ok" /\ result[d].kind = "ok"
         /\ getKey(call[c].id) \notin expired
         /\ Record(c) # NoRecord) =>
            /\ activeSessions[StoreOf(c)][call[c].id] # NoSession
            /\ Record(c).data = MarshalState(activeSessions[StoreOf(c)][call[c].id].val)

\* C28: a Load (Get) that misses the map and a Delete of the same session
\* run at once in one process, and no Store of the session is called.  Once
\* the Load has returned the session it built and the Delete has returned
\* without an error, the session is absent from the map.
C28_LoadDeleteAbsent ==
    \A c, d \in Callers :
        (/\ c # d /\ StoreOf(c) = StoreOf(d)
         /\ pc[c] = "ret" /\ pc[d] = "ret"
         /\ call[c].op \in LoadOps /\ call[d].op = "Delete"
         /\ call[c].id = call[d].id
         /\ result[c].kind = "ok" /\ result[c].session.obj = c
         /\ result[d].kind = "ok") =>
            activeSessions[StoreOf(c)][call[c].id] = NoSession

\* Caller c is inside its Range (All): between the RLock and the RUnlock.
Iterating(c) == pc[c] = "Range_loop" \/ iter[c].nested

\* The sessions in the map of the store of caller c.
Entries(c) == {x \in SessionIDs : activeSessions[StoreOf(c)][x] # NoSession}

\* The step in which the Range (All) of caller c returns.
IterationEnds(c) == Returns(c) /\ pc[c] = "Range_loop"

LockLabels == {"Set_Lock", "Delete_Lock", "Reset_Lock"}

====
